---- MODULE Spec2Model ----
(***************************************************************************)
(* Model of src/main.py: a Flask gateway (require_api_key, agent_query,    *)
(* root, healthz) in front of run_agent_once, which creates a session in   *)
(* the process-wide InMemoryRunner and collects the text of the events the *)
(* runner emits.  Requests are served concurrently; a request's steps are  *)
(* its calls into the runner (create_session, each event of run_async).    *)
(***************************************************************************)
EXTENDS Integers, Sequences, FiniteSets, TLC

\* ------------------------------------------------------------------------
\* Bounds
\* ------------------------------------------------------------------------
\* requests received by the process (all may overlap)
MaxRequests == 2
\* events one run_async stream emits, gateway runs
MaxStreamLen == 1
\* events one run_async stream emits, adapter runs
MaxEvents == 3
\* parts one run_async stream carries in all, adapter runs
MaxParts == 3

Requests == 1..MaxRequests
Min(S) == CHOOSE x \in S : \A y \in S : x <= y

\* ------------------------------------------------------------------------
\* Python values (tagged, so that None, "" and "None" stay distinct)
\* ------------------------------------------------------------------------
None == [t |-> "NoneType"]
Str(s) == [t |-> "str", v |-> s]
Num(s) == [t |-> "int", v |-> s]
List(q) == [t |-> "list", v |-> q]
Dict(f) == [t |-> "dict", v |-> f]
EmptyDict == Dict(<< >>)

\* Python truth value, as used by `not x` and `x or y`
Truthy(x) ==
    CASE x.t = "NoneType" -> FALSE
      [] x.t = "str" -> x.v # ""
      [] x.t = "int" -> x.v # "0"
      [] x.t = "list" -> Len(x.v) > 0
      [] x.t = "dict" -> DOMAIN x.v # {}

\* Python ==/!= on the values compared in the source (None and str)
PyEq(a, b) == a.t = b.t /\ (a.t = "NoneType" \/ a.v = b.v)

PyOr(x, y) == IF Truthy(x) THEN x ELSE y

\* ------------------------------------------------------------------------
\* Inputs
\* ------------------------------------------------------------------------
\* os.environ.get(name): None when unset, else the string (possibly empty)
EnvValues(s) == {None, Str(""), Str(s)}

\* request.headers.get("x-api-key")
Headers == {None, Str(""), Str("wrong"), Str("secret")}

\* The raw request body: absent, not parseable as JSON, or a JSON value
AbsentBody == [kind |-> "absent", value |-> None]
InvalidBody == [kind |-> "invalid", value |-> None]
JsonBody(v) == [kind |-> "json", value |-> v]

Bodies ==
    { AbsentBody, InvalidBody,
      JsonBody(EmptyDict),
      JsonBody(Dict([other |-> Str("x")])),
      JsonBody(Dict([question |-> Str("")])),
      JsonBody(Dict([question |-> Str("ping")])),
      JsonBody(List(<< >>)),
      JsonBody(List(<<Str("x")>>)),
      JsonBody(Str("ping")),
      JsonBody(Num("5")) }

\* Events of runner.run_async: content may be None; parts may be None/empty;
\* a part's text may be None or a string (possibly empty)
PartTexts == {None, Str(""), Str("A"), Str("B")}
Part(txt) == [text |-> txt]
NoContentEvent == [has_content |-> FALSE, parts |-> << >>]
Event(parts) == [has_content |-> TRUE, parts |-> parts]

SeqsUpTo(S, n) == UNION { [1..k -> S] : k \in 0..n }

AdapterEvents ==
    {NoContentEvent} \cup
    { Event(ps) : ps \in SeqsUpTo({Part(x) : x \in PartTexts}, MaxParts) }

GatewayEvents ==
    { Event(<<Part(Str("A"))>>), Event(<<Part(None), Part(Str("B"))>>) }

\* ------------------------------------------------------------------------
\* State
\* ------------------------------------------------------------------------
VARIABLES
    API_KEY,            \* main.py:18
    GOOGLE_AI_API_KEY,  \* main.py:20
    root_agent,         \* main.py:95-111, the pipeline descriptor
    sessions,           \* runner.session_service of the global runner, main.py:113
    req                 \* per request: inputs, position, locals, response

vars == <<API_KEY, GOOGLE_AI_API_KEY, root_agent, sessions, req>>

PipelineDescriptor ==
    [ name |-> "TickerBriefingCoordinator",
      model |-> "gemini-2.5-flash-lite",
      tools |-> <<"NewsCollectorAgent", "ClassifierAgent", "BriefingAgent">> ]

AppName == "TickerResearchApp"

\* ------------------------------------------------------------------------
\* Responses
\* ------------------------------------------------------------------------
NoResponse ==
    [status |-> 0, mimetype |-> "", json |-> << >>, text |-> "", exception |-> ""]

\* jsonify(d), status
jsonify(d, status) ==
    [status |-> status, mimetype |-> "application/json", json |-> d,
     text |-> "", exception |-> ""]

\* return "<text>", status
TextResponse(s, status) ==
    [status |-> status, mimetype |-> "text/html", json |-> << >>,
     text |-> s, exception |-> ""]

\* an exception that leaves the view function: Flask's default error page
UnhandledException(exc) ==
    [status |-> 500, mimetype |-> "text/html", json |-> << >>,
     text |-> "Internal Server Error", exception |-> exc]

Return(resp) == [kind |-> "return", response |-> resp, question |-> None]
Call(question) == [kind |-> "call", response |-> NoResponse, question |-> question]

\* ------------------------------------------------------------------------
\* Gateway
\* ------------------------------------------------------------------------
\* request.get_json(silent=True): the parsed value, None when there is no
\* JSON body or it does not parse
get_json(body) == IF body.kind = "json" THEN body.value ELSE None

\* body.get("question") on a dict
dict_get(d, k) == IF k \in DOMAIN d.v THEN d.v[k] ELSE None

\* agent_query with the credential check moved before the validation
agent_query_cred_first(body) ==
    LET parsed == PyOr(get_json(body), EmptyDict) IN
    IF ~Truthy(GOOGLE_AI_API_KEY)
    THEN Return(jsonify([error |-> "Env var \"GOOGLE_AI_API_KEY\" is not set"], 500))
    ELSE IF parsed.t # "dict"
    THEN Return(UnhandledException("AttributeError"))
    ELSE LET question == dict_get(parsed, "question") IN
         IF ~Truthy(question)
         THEN Return(jsonify([error |-> "Missing 'question' in JSON body"], 400))
         ELSE Call(question)

\* agent_query without the credential check
agent_query_no_cred_check(body) ==
    LET parsed == PyOr(get_json(body), EmptyDict) IN
    IF parsed.t # "dict"
    THEN Return(UnhandledException("AttributeError"))
    ELSE LET question == dict_get(parsed, "question") IN
         IF ~Truthy(question)
         THEN Return(jsonify([error |-> "Missing 'question' in JSON body"], 400))
         ELSE Call(question)

\* agent_query answering a repeated question from an earlier request's answer
agent_query_cached(body) ==
    LET parsed == PyOr(get_json(body), EmptyDict) IN
    IF parsed.t # "dict"
    THEN Return(UnhandledException("AttributeError"))
    ELSE LET question == dict_get(parsed, "question")
             hits == { o \in Requests : /\ req[o].pc = "done"
                                        /\ req[o].response.status = 200
                                        /\ req[o].path = "/agent/query"
                                        /\ req[o].question = question } IN
         IF ~Truthy(question)
         THEN Return(jsonify([error |-> "Missing 'question' in JSON body"], 400))
         ELSE IF ~Truthy(GOOGLE_AI_API_KEY)
         THEN Return(jsonify([error |-> "Env var \"GOOGLE_AI_API_KEY\" is not set"], 500))
         ELSE IF hits # {}
         THEN Return(req[Min(hits)].response)
         ELSE Call(question)

\* agent_query up to the call of run_agent_once (main.py:158-169)
agent_query(body) ==
    LET parsed == PyOr(get_json(body), EmptyDict) IN
    IF parsed.t # "dict"
    THEN Return(UnhandledException("AttributeError"))
    ELSE LET question == dict_get(parsed, "question") IN
         IF ~Truthy(question)
         THEN Return(jsonify([error |-> "Missing 'question' in JSON body"], 400))
         ELSE IF ~Truthy(GOOGLE_AI_API_KEY)
         THEN Return(jsonify([error |-> "Env var \"GOOGLE_AI_API_KEY\" is not set"], 500))
         ELSE Call(question)

\* the wrapper comparing keys only when the client sent one
require_api_key_absent_passes(client_key, body) ==
    IF ~Truthy(API_KEY)
    THEN Return(jsonify([error |-> "Server API key not configured"], 500))
    ELSE IF Truthy(client_key) /\ ~PyEq(client_key, API_KEY)
    THEN Return(jsonify([error |-> "Unauthorized"], 401))
    ELSE agent_query(body)

\* the wrapper comparing keys before it looks at the server secret
require_api_key_compare_first(client_key, body) ==
    IF ~Truthy(client_key) \/ ~PyEq(client_key, API_KEY)
    THEN Return(jsonify([error |-> "Unauthorized"], 401))
    ELSE IF ~Truthy(API_KEY)
    THEN Return(jsonify([error |-> "Server API key not configured"], 500))
    ELSE agent_query(body)

\* the wrapper of require_api_key around agent_query (main.py:29-35)
require_api_key(client_key, body) ==
    IF ~Truthy(API_KEY)
    THEN Return(jsonify([error |-> "Server API key not configured"], 500))
    ELSE IF ~Truthy(client_key) \/ ~PyEq(client_key, API_KEY)
    THEN Return(jsonify([error |-> "Unauthorized"], 401))
    ELSE agent_query(body)

\* the except branch putting the exception's text in the body
agent_query_except_detail ==
    jsonify([error |-> "Agent execution failed", detail |-> "RuntimeError"], 500)

\* the except branch of agent_query (main.py:170-172)
agent_query_except == jsonify([error |-> "Agent execution failed"], 500)

\* the final return of agent_query (main.py:174)
agent_query_return(question, answer) ==
    jsonify([question |-> question, answer |-> answer], 200)

\* healthz answering only when the server secret is configured
healthz_view_guarded ==
    IF Truthy(API_KEY)
    THEN TextResponse("ok", 200)
    ELSE jsonify([error |-> "Server API key not configured"], 500)

\* root() (main.py:177-179) and healthz() (main.py:182-185)
root_view == jsonify([status |-> "ok"], 200)
healthz_view == TextResponse("ok", 200)

\* ------------------------------------------------------------------------
\* Adapter
\* ------------------------------------------------------------------------
RECURSIVE CollectParts(_, _)
\* the inner loop over content.parts (main.py:142-145)
CollectParts(text_chunks, parts) ==
    IF parts = << >>
    THEN text_chunks
    ELSE LET txt == Head(parts).text IN
         CollectParts(IF Truthy(txt) THEN Append(text_chunks, txt.v) ELSE text_chunks,
                      Tail(parts))

RECURSIVE AllChunks(_)
AllChunks(n) == IF n = 0 THEN << >> ELSE AllChunks(n - 1) \o req[n].text_chunks

\* the loop appending to one list shared by all requests
CollectEventShared(text_chunks, event) ==
    IF ~event.has_content \/ event.parts = << >>
    THEN AllChunks(MaxRequests)
    ELSE CollectParts(AllChunks(MaxRequests), event.parts)

\* one iteration of the async for loop (main.py:138-145)
CollectEvent(text_chunks, event) ==
    IF ~event.has_content \/ event.parts = << >>
    THEN text_chunks
    ELSE CollectParts(text_chunks, event.parts)

RECURSIVE Join(_, _)
\* sep.join(chunks)
Join(sep, chunks) ==
    IF chunks = << >> THEN ""
    ELSE IF Len(chunks) = 1 THEN chunks[1]
    ELSE chunks[1] \o sep \o Join(sep, Tail(chunks))

\* the tail of run_agent_once joining the chunks without a separator
AnswerConcatenated(text_chunks) ==
    IF text_chunks = << >>
    THEN "(No text response from agent)"
    ELSE Join("", text_chunks)

\* the tail of run_agent_once (main.py:146-149)
Answer(text_chunks) ==
    IF text_chunks = << >>
    THEN "(No text response from agent)"
    ELSE Join("\n", text_chunks)

\* a session of the in-memory session service (main.py:122-125)
NewSession(store) ==
    [id |-> Cardinality(store) + 1, user_id |-> "web_user", app_name |-> AppName]

\* ------------------------------------------------------------------------
\* Initial state: the module has been imported, no request received yet
\* ------------------------------------------------------------------------
IdleRequest ==
    [ pc |-> "idle", method |-> "", path |-> "", client_key |-> None,
      body |-> AbsentBody, question |-> None, session |-> 0,
      text_chunks |-> << >>, emitted |-> << >>, raised |-> "", calls |-> 0,
      response |-> NoResponse ]

Init ==
    /\ API_KEY \in EnvValues("secret")
    /\ GOOGLE_AI_API_KEY \in EnvValues("gkey")
    /\ root_agent = PipelineDescriptor
    /\ sessions = {}
    /\ req = [r \in Requests |-> IdleRequest]

\* ------------------------------------------------------------------------
\* Actions
\* ------------------------------------------------------------------------
Config == <<API_KEY, GOOGLE_AI_API_KEY, root_agent>>

Received(r, method, path, client_key, body) ==
    [req[r] EXCEPT !.method = method, !.path = path,
                   !.client_key = client_key, !.body = body]

\* GET /healthz
GetHealthz(r) ==
    /\ req[r].pc = "idle"
    /\ \E h \in Headers :
         req' = [req EXCEPT ![r] =
                   [Received(r, "GET", "/healthz", h, AbsentBody)
                      EXCEPT !.pc = "done", !.response = healthz_view]]
    /\ UNCHANGED <<Config, sessions>>

\* GET /
GetRoot(r) ==
    /\ req[r].pc = "idle"
    /\ \E h \in Headers :
         req' = [req EXCEPT ![r] =
                   [Received(r, "GET", "/", h, AbsentBody)
                      EXCEPT !.pc = "done", !.response = root_view]]
    /\ UNCHANGED <<Config, sessions>>

\* POST /agent/query: the wrapper and agent_query, up to either a response
\* or the call asyncio.run(run_agent_once(question))
PostAgentQuery(r) ==
    /\ req[r].pc = "idle"
    /\ \E h \in Headers, b \in Bodies :
         LET out == require_api_key(h, b)
             rcv == Received(r, "POST", "/agent/query", h, b) IN
         req' = [req EXCEPT ![r] =
                   IF out.kind = "call"
                   THEN [rcv EXCEPT !.pc = "create_session",
                                    !.question = out.question,
                                    !.calls = @ + 1]
                   ELSE [rcv EXCEPT !.pc = "done", !.response = out.response]]
    /\ UNCHANGED <<Config, sessions>>

\* await runner.session_service.create_session(...) returns (main.py:122-130)
CreateSession(r) ==
    /\ req[r].pc = "create_session"
    /\ LET s == NewSession(sessions) IN
         /\ sessions' = sessions \cup {s}
         /\ req' = [req EXCEPT ![r] =
                      [@ EXCEPT !.pc = "run_async", !.session = s.id,
                                !.text_chunks = << >>]]
    /\ UNCHANGED Config

\* create_session raises; agent_query's except branch answers
CreateSessionRaises(r) ==
    /\ req[r].pc = "create_session"
    /\ req' = [req EXCEPT ![r] =
                 [@ EXCEPT !.pc = "done", !.raised = "create_session",
                           !.response = agent_query_except]]
    /\ UNCHANGED <<Config, sessions>>

RECURSIVE PartCount(_)
PartCount(events) ==
    IF events = << >> THEN 0
    ELSE Len(Head(events).parts) + PartCount(Tail(events))

\* run_async yields one more event; one iteration of the loop
RunAsyncEvent(r, events, maxlen, maxparts) ==
    /\ req[r].pc = "run_async"
    /\ Len(req[r].emitted) < maxlen
    /\ \E ev \in events :
         /\ PartCount(Append(req[r].emitted, ev)) <= maxparts
         /\ req' = [req EXCEPT ![r] =
                   [@ EXCEPT !.emitted = Append(@, ev),
                             !.text_chunks = CollectEvent(@, ev)]]
    /\ UNCHANGED <<Config, sessions>>

\* run_async raises (before the first event or after some)
RunAsyncRaises(r) ==
    /\ req[r].pc = "run_async"
    /\ req' = [req EXCEPT ![r] =
                 [@ EXCEPT !.pc = "done", !.raised = "run_async",
                           !.response = agent_query_except]]
    /\ UNCHANGED <<Config, sessions>>

\* run_async is exhausted: run_agent_once returns, agent_query returns
RunAsyncEnd(r) ==
    /\ req[r].pc = "run_async"
    /\ req' = [req EXCEPT ![r] =
                 [@ EXCEPT !.pc = "done",
                           !.response =
                               agent_query_return(req[r].question,
                                                  Answer(req[r].text_chunks))]]
    /\ UNCHANGED <<Config, sessions>>

Next ==
    \E r \in Requests :
        \/ GetHealthz(r)
        \/ GetRoot(r)
        \/ PostAgentQuery(r)
        \/ CreateSession(r)
        \/ CreateSessionRaises(r)
        \/ RunAsyncEvent(r, GatewayEvents, MaxStreamLen, 2 * MaxStreamLen)
        \/ RunAsyncRaises(r)
        \/ RunAsyncEnd(r)

Spec == Init /\ [][Next]_vars

\* The adapter alone: one authorized query at a time against a runtime that
\* may emit every shape of event
InitAdapter ==
    /\ API_KEY = Str("secret")
    /\ GOOGLE_AI_API_KEY = Str("gkey")
    /\ root_agent = PipelineDescriptor
    /\ sessions = {}
    /\ req = [r \in Requests |-> IdleRequest]

NextAdapter ==
    \E r \in {Min(Requests)} :
        /\ \/ PostAgentQuery(r)
           \/ CreateSession(r)
           \/ CreateSessionRaises(r)
           \/ RunAsyncEvent(r, AdapterEvents, MaxEvents, MaxParts)
           \/ RunAsyncRaises(r)
           \/ RunAsyncEnd(r)

SpecAdapter == InitAdapter /\ [][NextAdapter]_vars

\* ------------------------------------------------------------------------
\* Vocabulary of the properties
\* ------------------------------------------------------------------------
Done(r) == req[r].pc = "done"
IsQuery(r) == req[r].method = "POST" /\ req[r].path = "/agent/query"
DoneQuery(r) == Done(r) /\ IsQuery(r)

SecretConfigured == API_KEY # None /\ API_KEY # Str("")
CredentialConfigured == GOOGLE_AI_API_KEY # None /\ GOOGLE_AI_API_KEY # Str("")
CorrectKey(r) == SecretConfigured /\ req[r].client_key = API_KEY

\* a JSON object with a non-empty question
HasQuestion(b) ==
    /\ b.kind = "json"
    /\ b.value.t = "dict"
    /\ "question" \in DOMAIN b.value.v
    /\ b.value.v.question \notin {None, Str("")}

\* no body, no JSON, an empty JSON value, or an object without a (non-empty) question
MissingQuestion(b) ==
    \/ b.kind \in {"absent", "invalid"}
    \/ b.value.t = "dict" /\ ~HasQuestion(b)
    \/ b.value.t = "list" /\ b.value.v = << >>

ErrorEnvelope(status, msg) ==
    [status |-> status, mimetype |-> "application/json", json |-> [error |-> msg],
     text |-> "", exception |-> ""]

NotInvoked(r) ==
    /\ req[r].calls = 0
    /\ req[r].session = 0
    /\ req[r].emitted = << >>
    /\ req[r].raised = ""

\* the text fragments of a stream, in emission order
PartFragments(parts) ==
    LET withText == SelectSeq(parts, LAMBDA p : p.text.t = "str" /\ p.text.v # "") IN
    [i \in 1..Len(withText) |-> withText[i].text.v]

RECURSIVE Fragments(_)
Fragments(events) ==
    IF events = << >> THEN << >>
    ELSE LET n == Len(events) IN
         Fragments(SubSeq(events, 1, n - 1)) \o
             (IF events[n].has_content THEN PartFragments(events[n].parts) ELSE << >>)

RECURSIVE NewlineJoined(_)
NewlineJoined(frs) ==
    IF Len(frs) = 1 THEN frs[1]
    ELSE NewlineJoined(SubSeq(frs, 1, Len(frs) - 1)) \o "\n" \o frs[Len(frs)]

ExpectedAnswer(events) ==
    IF Fragments(events) = << >>
    THEN "(No text response from agent)"
    ELSE NewlineJoined(Fragments(events))

\* ------------------------------------------------------------------------
\* C1: with a server secret configured, a POST /agent/query whose x-api-key
\* is absent, empty or different from the secret is answered
\* 401 {"error":"Unauthorized"} whatever its body, without invoking the runtime.
\* ------------------------------------------------------------------------
C1_Unauthorized ==
    \A r \in Requests :
        (DoneQuery(r) /\ SecretConfigured /\
         (req[r].client_key = None \/ req[r].client_key = Str("") \/
          req[r].client_key # API_KEY))
        => /\ req[r].response = ErrorEnvelope(401, "Unauthorized")
           /\ NotInvoked(r)

C1_Witness ==
    \E r \in Requests :
        /\ DoneQuery(r) /\ SecretConfigured /\ CredentialConfigured
        /\ req[r].client_key = None
        /\ req[r].body = JsonBody(Dict([question |-> Str("ping")]))
        /\ req[r].response.status = 401

\* ------------------------------------------------------------------------
\* C2: a POST /agent/query with the correct key and no body, an empty body or
\* no (non-empty) question is answered 400 {"error":"Missing 'question' in
\* JSON body"} without invoking the runtime, whether or not the runtime
\* credential is set.
\* ------------------------------------------------------------------------
C2_MissingQuestion ==
    \A r \in Requests :
        (DoneQuery(r) /\ CorrectKey(r) /\ MissingQuestion(req[r].body))
        => /\ req[r].response = ErrorEnvelope(400, "Missing 'question' in JSON body")
           /\ NotInvoked(r)

C2_Witness ==
    \E r \in Requests :
        /\ DoneQuery(r) /\ CorrectKey(r) /\ ~CredentialConfigured
        /\ req[r].body = JsonBody(Dict([question |-> Str("")]))
        /\ req[r].response.status = 400

\* ------------------------------------------------------------------------
\* C3: the answer of run_agent_once is the text fragments of all parts of all
\* emitted events, in emission order, joined with a newline; events without
\* content or parts and parts without text contribute nothing; with no
\* fragment at all the answer is the sentinel, never the empty string.
\* ------------------------------------------------------------------------
C3_AnswerIsJoinedFragments ==
    \A r \in Requests :
        (DoneQuery(r) /\ req[r].calls = 1 /\ req[r].raised = "")
        => /\ "answer" \in DOMAIN req[r].response.json
           /\ req[r].response.json.answer = ExpectedAnswer(req[r].emitted)
           /\ req[r].response.json.answer # ""

C3_Witness ==
    \E r \in Requests :
        /\ DoneQuery(r) /\ req[r].raised = ""
        /\ req[r].emitted =
               <<NoContentEvent, Event(<<Part(Str("B")), Part(Str(""))>>),
                 Event(<<Part(Str("A"))>>)>>
        /\ req[r].response.json.answer = "B\nA"

\* ------------------------------------------------------------------------
\* C4: when the runtime raises (creating the session, before the first event
\* or after some fragments) the response is exactly
\* 500 {"error":"Agent execution failed"}; a response is either a full 200
\* answer or an error, never a partial answer.
\* ------------------------------------------------------------------------
C4_FailureIsGeneric ==
    \A r \in Requests :
        DoneQuery(r) =>
            /\ req[r].raised # "" =>
                   req[r].response = ErrorEnvelope(500, "Agent execution failed")
            /\ req[r].response.status = 200 =>
                   /\ req[r].raised = ""
                   /\ DOMAIN req[r].response.json = {"question", "answer"}
                   /\ req[r].response.json.answer = ExpectedAnswer(req[r].emitted)
            /\ req[r].response.status # 200 =>
                   "answer" \notin DOMAIN req[r].response.json

C4_Witness ==
    \E r \in Requests :
        /\ DoneQuery(r) /\ req[r].raised = "run_async"
        /\ req[r].text_chunks # << >>
        /\ req[r].response.status = 500

\* ------------------------------------------------------------------------
\* C5: with no server secret configured every POST /agent/query is answered
\* 500 {"error":"Server API key not configured"}, whatever its header and
\* body (before the 401 and 400 outcomes), and the runtime is never invoked.
\* ------------------------------------------------------------------------
C5_SecretNotConfigured ==
    ~SecretConfigured =>
        /\ sessions = {}
        /\ \A r \in Requests :
               DoneQuery(r) =>
                   /\ req[r].response =
                          ErrorEnvelope(500, "Server API key not configured")
                   /\ NotInvoked(r)

C5_Witness ==
    \E r \in Requests :
        /\ DoneQuery(r) /\ API_KEY = Str("") /\ req[r].client_key = Str("")
        /\ req[r].body = AbsentBody
        /\ req[r].response.status = 500

\* ------------------------------------------------------------------------
\* C6: an authorized POST /agent/query with a non-empty question, when the
\* runtime credential is absent, fails with a 500 configuration error before
\* any session is created or the runtime is invoked, and that error differs
\* from {"error":"Agent execution failed"}.
\* ------------------------------------------------------------------------
C6_CredentialMissing ==
    \A r \in Requests :
        (DoneQuery(r) /\ CorrectKey(r) /\ HasQuestion(req[r].body) /\
         ~CredentialConfigured)
        => /\ req[r].response =
                  ErrorEnvelope(500, "Env var \"GOOGLE_AI_API_KEY\" is not set")
           /\ req[r].response # ErrorEnvelope(500, "Agent execution failed")
           /\ NotInvoked(r)
           /\ sessions = {}

C6_Witness ==
    \E r \in Requests :
        /\ DoneQuery(r) /\ CorrectKey(r) /\ HasQuestion(req[r].body)
        /\ GOOGLE_AI_API_KEY = None
        /\ req[r].response.status = 500

\* ------------------------------------------------------------------------
\* C7: the runtime is invoked exactly once for each POST /agent/query that
\* passed the auth gate, the validation and the credential check, and for no
\* other request; each invocation runs in a session created for it alone;
\* identical requests are invoked independently; the response is set only
\* once the invocation has finished or failed.
\* ------------------------------------------------------------------------
PassedGates(r) ==
    IsQuery(r) /\ CorrectKey(r) /\ HasQuestion(req[r].body) /\ CredentialConfigured

RECURSIVE TotalCalls(_)
TotalCalls(n) == IF n = 0 THEN 0 ELSE TotalCalls(n - 1) + req[n].calls

C7_OneInvocationPerRequest ==
    /\ TotalCalls(MaxRequests) =
           Cardinality({r \in Requests : req[r].pc # "idle" /\ PassedGates(r)})
    /\ \A r \in Requests :
           /\ req[r].pc # "idle" => req[r].calls = IF PassedGates(r) THEN 1 ELSE 0
           /\ req[r].session # 0 =>
                  /\ req[r].calls = 1
                  /\ \E s \in sessions : s.id = req[r].session
                  /\ \A o \in Requests \ {r} : req[o].session # req[r].session
           /\ req[r].pc \in {"create_session", "run_async"} =>
                  req[r].response = NoResponse
           /\ (req[r].calls = 1 /\ req[r].response # NoResponse) => Done(r)
    /\ Cardinality(sessions) = Cardinality({r \in Requests : req[r].session # 0})

C7_Witness ==
    \E r, o \in Requests :
        /\ r # o /\ Done(r) /\ Done(o)
        /\ req[r].client_key = req[o].client_key /\ req[r].body = req[o].body
        /\ req[r].calls = 1 /\ req[o].calls = 1
        /\ req[r].session # 0 /\ req[o].session # 0
        /\ req[r].response.status = 200 /\ req[o].response.status = 200

\* ------------------------------------------------------------------------
\* C8: every POST /agent/query, for every header and body (no body, invalid
\* JSON, an object, a non-object JSON value), ends with a JSON envelope and a
\* status in {200, 400, 401, 500}; no exception leaves the handler.
\* ------------------------------------------------------------------------
C8_AlwaysJsonEnvelope ==
    \A r \in Requests :
        DoneQuery(r) =>
            /\ req[r].response.exception = ""
            /\ req[r].response.mimetype = "application/json"
            /\ req[r].response.status \in {200, 400, 401, 500}

\* ------------------------------------------------------------------------
\* C9 as stated: handling requests mutates no process-wide shared state (the
\* session store included) and a response depends only on the request's own
\* header, body and events.
\* ------------------------------------------------------------------------
SameOutcome(r, o) ==
    (/\ Done(r) /\ Done(o)
     /\ req[r].method = req[o].method /\ req[r].path = req[o].path
     /\ req[r].client_key = req[o].client_key /\ req[r].body = req[o].body
     /\ req[r].emitted = req[o].emitted /\ req[r].raised = req[o].raised)
    => req[r].response = req[o].response

C9_StepKeepsSharedState ==
    /\ API_KEY' = API_KEY
    /\ GOOGLE_AI_API_KEY' = GOOGLE_AI_API_KEY
    /\ root_agent' = root_agent
    /\ sessions \subseteq sessions'
    /\ sessions' # sessions =>
           \E r \in Requests :
               /\ req[r].pc = "create_session" /\ req'[r].pc = "run_async"
               /\ \A o \in Requests \ {r} : req'[o] = req[o]
               /\ \E s \in sessions' \ sessions :
                      /\ sessions' = sessions \cup {s}
                      /\ req'[r].session = s.id

StatusOkJson ==
    [status |-> 200, mimetype |-> "application/json", json |-> [status |-> "ok"],
     text |-> "", exception |-> ""]

====
